---- MODULE Spec2Model ----
(***************************************************************************)
(* A model of compute_f1_hash.py: loading two JSONL logs, fingerprinting   *)
(* each record by its request content, indexing (first occurrence wins),   *)
(* scoring the aligned fingerprints into a confusion matrix and writing a  *)
(* summary.                                                                *)
(***************************************************************************)
EXTENDS Integers, Sequences, FiniteSets, TLC

VARIABLES
    pc,            \* position of main(): which statement runs next
    error,         \* "none", or the exception that ended the run
    ours_rows,     \* main: ours_rows = load_jsonl(args.ours)
    off_rows,      \* main: off_rows = load_jsonl(args.official)
    ours_map,      \* main: ours_map (fingerprint -> entry)
    ours_dups,
    off_map,
    off_dups,
    idx,           \* number of rows the running build loop has consumed
    aligned,       \* main: sorted(keys_ours & keys_off)
    k,             \* number of aligned fingerprints the scoring loop has consumed
    TP, FP, FN, TN,
    count_finish_reason_tool_calls,
    count_successful_tool_call,
    precision, recall, f1, schema_accuracy,   \* Unset before lines 118-124
    summary,       \* main: the summary dict, NoSummary before line 126
    out_file,      \* what this run has written to args.out
    stdout,        \* what this run has printed
    h_in,          \* the pair of entries a fingerprint comparison is run on
    h_out,         \* their fingerprints
    fr_in,         \* the entry a finish-reason extraction is run on
    fr_out         \* its result

runVars == <<pc, error, ours_rows, off_rows, ours_map, ours_dups, off_map, off_dups,
             idx, aligned, k, TP, FP, FN, TN, count_finish_reason_tool_calls,
             count_successful_tool_call, precision, recall, f1, schema_accuracy,
             summary, out_file, stdout>>
hashVars == <<h_in, h_out>>
frVars == <<fr_in, fr_out>>
vars == <<runVars, hashVars, frVars>>

----------------------------------------------------------------------------
(* Bounds *)

\* the most records a log holds
MaxRows == 2
\* size of the space the digest is abstracted to
DigestMod == 97

----------------------------------------------------------------------------
(* JSON values as json.loads builds them: tagged tuples.  An object keeps  *)
(* its members in insertion order, as a Python dict does.                  *)

Null == <<"null">>
Str(s) == <<"str", s>>
Bool(b) == <<"bool", b>>
Arr(items) == <<"arr", items>>
Obj(members) == <<"obj", members>>
EmptyObj == Obj(<<>>)
EmptyArr == Arr(<<>>)

\* the outcome of a call that raised
Raised(exc) == <<"raise", exc>>
AttributeError == Raised("AttributeError")
JSONDecodeError == Raised("JSONDecodeError")
ZeroDivisionError == Raised("ZeroDivisionError")
IsRaised(v) == v[1] = "raise"

\* the marker of a member that is not there
Absent == <<"absent">>

IsDict(v) == v[1] = "obj"
IsList(v) == v[1] = "arr"
IsStr(v) == v[1] = "str"

\* key in dict
Has(o, key) == \E i \in 1..Len(o[2]) : o[2][i][1] = key

\* dict.get(key, default)
Get(o, key, default) ==
    IF Has(o, key)
    THEN o[2][CHOOSE i \in 1..Len(o[2]) : o[2][i][1] = key][2]
    ELSE default

\* a member's value, or Absent
Field(o, key) == Get(o, key, Absent)

\* Python truth value of a JSON value
Truthy(v) ==
    CASE v[1] = "null" -> FALSE
      [] v[1] = "str" -> v[2] # ""
      [] v[1] = "bool" -> v[2]
      [] v[1] = "arr" -> Len(v[2]) > 0
      [] v[1] = "obj" -> Len(v[2]) > 0
      [] OTHER -> FALSE

\* a or b
Or(a, b) == IF Truthy(a) THEN a ELSE b

\* Python == on JSON values: dicts compare as mappings, whatever the order of
\* their members; lists compare element by element
RECURSIVE JEq(_, _)
JEq(a, b) ==
    IF a[1] # b[1] THEN FALSE
    ELSE CASE a[1] = "arr" ->
                /\ Len(a[2]) = Len(b[2])
                /\ \A i \in 1..Len(a[2]) : JEq(a[2][i], b[2][i])
           [] a[1] = "obj" ->
                /\ Len(a[2]) = Len(b[2])
                /\ \A i \in 1..Len(a[2]) :
                      /\ Has(b, a[2][i][1])
                      /\ JEq(a[2][i][2], Get(b, a[2][i][1], Absent))
           [] OTHER -> a = b

----------------------------------------------------------------------------
(* json.dumps(key_obj, ensure_ascii=False, sort_keys=True): the text as a  *)
(* sequence of tokens (a string's characters are one token).               *)

\* the member names that occur, in the order Python's str comparison gives
KeysSorted == <<"content", "function", "messages", "model", "name", "role",
                "tool_choice", "tools", "type">>

KeyRank(key) == CHOOSE i \in 1..Len(KeysSorted) : KeysSorted[i] = key

\* ms without its i-th element
RemoveAt(ms, i) == SubSeq(ms, 1, i - 1) \o SubSeq(ms, i + 1, Len(ms))

\* sort_keys=True: the members by ascending key
RECURSIVE SortMembers(_)
SortMembers(ms) ==
    IF ms = <<>> THEN <<>>
    ELSE LET i == CHOOSE j \in 1..Len(ms) :
                     \A l \in 1..Len(ms) : KeyRank(ms[j][1]) <= KeyRank(ms[l][1])
         IN <<ms[i]>> \o SortMembers(RemoveAt(ms, i))

RECURSIVE Dumps(_, _), DumpItems(_, _), DumpMembers(_, _)
Dumps(v, sort_keys) ==
    CASE v[1] = "null" -> <<"null">>
      [] v[1] = "str" -> <<"\"", v[2], "\"">>
      [] v[1] = "bool" -> IF v[2] THEN <<"true">> ELSE <<"false">>
      [] v[1] = "arr" -> <<"[">> \o DumpItems(v[2], sort_keys) \o <<"]">>
      [] v[1] = "obj" ->
            <<"{">> \o DumpMembers(IF sort_keys THEN SortMembers(v[2]) ELSE v[2],
                                   sort_keys) \o <<"}">>

DumpItems(items, sort_keys) ==
    IF items = <<>> THEN <<>>
    ELSE Dumps(Head(items), sort_keys)
         \o (IF Len(items) > 1
             THEN <<", ">> \o DumpItems(Tail(items), sort_keys)
             ELSE <<>>)

DumpMembers(ms, sort_keys) ==
    IF ms = <<>> THEN <<>>
    ELSE <<"\"", ms[1][1], "\"", ": ">> \o Dumps(ms[1][2], sort_keys)
         \o (IF Len(ms) > 1
             THEN <<", ">> \o DumpMembers(Tail(ms), sort_keys)
             ELSE <<>>)

\* the serialization without sort_keys: members in insertion order
json_dumps_unsorted(v) == Dumps(v, FALSE)

\* line 51
json_dumps(v) == Dumps(v, TRUE)

(* hashlib.md5(...).hexdigest(): a deterministic function of the text into *)
(* a finite space; distinct texts may collide.                             *)

TokenTable == <<"null", "\"", "true", "false", "[", "]", "{", "}", ", ", ": ",
                "content", "function", "messages", "model", "name", "role",
                "tool_choice", "tools", "type",
                "user", "hi", "bye", "auto", "f", "g", "m1", "m2", "">>

TokenCode(t) == CHOOSE i \in 1..Len(TokenTable) : TokenTable[i] = t

\* the digest of tokens lo..hi, the two halves mixed with different weights
RECURSIVE Md5Range(_, _, _)
Md5Range(tokens, lo, hi) ==
    IF lo > hi THEN 7 % DigestMod
    ELSE IF lo = hi THEN TokenCode(tokens[lo]) % DigestMod
    ELSE LET mid == (lo + hi) \div 2
         IN (Md5Range(tokens, lo, mid) * 31 + Md5Range(tokens, mid + 1, hi) * 17 + 7)
               % DigestMod

md5_hexdigest(tokens) == <<"md5", Md5Range(tokens, 1, Len(tokens))>>

----------------------------------------------------------------------------
(* The functions of the program *)

\* lines 35-52
compute_messages_hash(entry) ==
    IF ~IsDict(entry) THEN AttributeError           \* entry.get on a non-dict
    ELSE LET req == Get(entry, "request", EmptyObj)
         IN IF ~IsDict(req) THEN AttributeError     \* req.get on a non-dict
            ELSE LET key_obj == Obj(<< <<"messages", Get(req, "messages", EmptyArr)>>,
                                       <<"tools", Get(req, "tools", Null)>>,
                                       <<"tool_choice", Get(req, "tool_choice", Null)>> >>)
                 IN md5_hexdigest(json_dumps(key_obj))

\* the extractor with the two sources tried in the opposite order
extract_finish_reason_nested_first(entry) ==
    IF ~IsDict(entry) THEN AttributeError
    ELSE LET resp == Or(Get(entry, "response", Null), EmptyObj)
             top == Get(entry, "finish_reason", Null)
         IN IF ~IsDict(resp) THEN AttributeError
            ELSE LET choices == Or(Get(resp, "choices", Null), EmptyArr)
                 IN IF Truthy(choices) /\ IsList(choices)
                    THEN LET ch0 == Or(choices[2][1], EmptyObj)
                         IN IF ~IsDict(ch0) THEN AttributeError
                            ELSE LET fr == Get(ch0, "finish_reason", Null)
                                 IN IF Truthy(fr) THEN fr
                                    ELSE IF Truthy(top) THEN top ELSE Null
                    ELSE IF Truthy(top) THEN top ELSE Null

extract_finish_reason(entry) ==
    IF ~IsDict(entry) THEN AttributeError
    ELSE LET fr0 == Get(entry, "finish_reason", Null)
         IN IF Truthy(fr0) THEN fr0
            ELSE LET resp == Or(Get(entry, "response", Null), EmptyObj)
                 IN IF ~IsDict(resp) THEN AttributeError
                    ELSE LET choices == Or(Get(resp, "choices", Null), EmptyArr)
                         IN IF Truthy(choices) /\ IsList(choices)
                            THEN LET ch0 == Or(choices[2][1], EmptyObj)
                                 IN IF ~IsDict(ch0) THEN AttributeError
                                    ELSE LET fr == Get(ch0, "finish_reason", Null)
                                         IN IF Truthy(fr) THEN fr ELSE Null
                            ELSE Null

\* main.is_tool_calls
is_tool_calls(fr) == IsStr(fr) /\ fr[2] = "tool_calls"

----------------------------------------------------------------------------
(* The records and lines the logs are drawn from *)

MsgHi == Obj(<< <<"role", Str("user")>>, <<"content", Str("hi")>> >>)
\* MsgHi with its members in the other order
MsgHiReordered == Obj(<< <<"content", Str("hi")>>, <<"role", Str("user")>> >>)
MsgBye == Obj(<< <<"role", Str("user")>>, <<"content", Str("bye")>> >>)
ToolF == Obj(<< <<"type", Str("function")>>,
                <<"function", Obj(<< <<"name", Str("f")>> >>)>> >>)
ToolFReordered == Obj(<< <<"function", Obj(<< <<"name", Str("f")>> >>)>>,
                         <<"type", Str("function")>> >>)

NestedFinish(fr) ==
    Obj(<< <<"choices", Arr(<< Obj(<< <<"finish_reason", Str(fr)>> >>) >>)>> >>)

ReqA == Obj(<< <<"model", Str("m1")>>, <<"messages", Arr(<<MsgHi>>)>> >>)
\* the request of ReqA from another vendor, its keys in another order
ReqAOther == Obj(<< <<"messages", Arr(<<MsgHiReordered>>)>>, <<"model", Str("m2")>> >>)
ReqB == Obj(<< <<"messages", Arr(<<MsgBye>>)>>, <<"tool_choice", Str("auto")>> >>)

\* flattened shape, triggered, valid
R1 == Obj(<< <<"request", ReqA>>, <<"finish_reason", Str("tool_calls")>>,
             <<"tool_calls_valid", Bool(TRUE)>> >>)
\* same test case as R1: top-level "stop" over a nested "tool_calls", invalid
R2 == Obj(<< <<"request", ReqAOther>>, <<"finish_reason", Str("stop")>>,
             <<"response", NestedFinish("tool_calls")>>,
             <<"tool_calls_valid", Bool(FALSE)>> >>)
\* raw-response shape, triggered, invalid
R3 == Obj(<< <<"request", ReqB>>, <<"response", NestedFinish("tool_calls")>>,
             <<"tool_calls_valid", Bool(FALSE)>> >>)
\* no request, empty finish reason, valid
R4 == Obj(<< <<"finish_reason", Str("")>>, <<"tool_calls_valid", Bool(TRUE)>> >>)
\* a line that is valid JSON but no object: []
X1 == EmptyArr
\* a record whose request is null
X2 == Obj(<< <<"request", Null>>, <<"finish_reason", Str("tool_calls")>> >>)
\* a record whose response is a string, not an object
X3 == Obj(<< <<"request", ReqB>>, <<"response", Str("error")>> >>)

----------------------------------------------------------------------------
(* Floats of main's ratios, as exact fractions with a positive denominator *)

Frac(n, d) == <<"frac", n, d>>
\* the literal 0.0
Zero == Frac(0, 1)
Unset == <<"unset">>
IsZero(x) == x[1] = "frac" /\ x[2] = 0
Positive(x) == x[2] > 0

\* a / b on ints (true division)
IntDiv(a, b) == IF b = 0 THEN ZeroDivisionError ELSE Frac(a, b)
FAdd(x, y) == Frac(x[2] * y[3] + y[2] * x[3], x[3] * y[3])
FMul(x, y) == Frac(x[2] * y[2], x[3] * y[3])
\* x / y on floats
FDiv(x, y) == IF y[2] = 0 THEN ZeroDivisionError ELSE Frac(x[2] * y[3], x[3] * y[2])

\* round(x * 100, 2), in hundredths; a tie goes to the even neighbour
RoundPct(x) ==
    LET n == x[2] * 10000
        q == n \div x[3]
        r == n % x[3]
    IN IF 2 * r < x[3] THEN q
       ELSE IF 2 * r > x[3] THEN q + 1
       ELSE IF q % 2 = 0 THEN q ELSE q + 1

\* the precision without its guard
precision_of_unguarded(tp, fp) == IntDiv(tp, tp + fp)

\* line 118
precision_of(tp, fp) == IF (tp + fp) > 0 THEN IntDiv(tp, tp + fp) ELSE Zero

\* line 119
recall_of(tp, fn) == IF (tp + fn) > 0 THEN IntDiv(tp, tp + fn) ELSE Zero

\* line 120
f1_of(p, r) ==
    IF Positive(FAdd(p, r))
    THEN FDiv(FMul(FMul(Frac(2, 1), p), r), FAdd(p, r))
    ELSE Zero

\* lines 122-124
schema_accuracy_of(successful, triggered) ==
    IF triggered > 0 THEN IntDiv(successful, triggered) ELSE Zero

----------------------------------------------------------------------------
(* load_jsonl, one line at a time *)

Blank == <<"blank">>            \* a line that is empty once stripped
Garbage == <<"garbage">>        \* a line json.loads rejects
JsonLine(v) == <<"json", v>>    \* a line that is the JSON text of v

\* json.loads(line)
json_loads(line) == IF line[1] = "json" THEN line[2] ELSE JSONDecodeError

GoodRecords == {R1, R2, R3, R4}
\* every value a line of a log may parse to
Records == GoodRecords \cup {X1, X2, X3}
Lines == {Blank, Garbage} \cup {JsonLine(v) : v \in Records}

\* lines 10-17: the body of load_jsonl's loop
load_line(rows, line) ==
    IF line = Blank THEN <<"ok", rows>>
    ELSE IF IsRaised(json_loads(line)) THEN <<"ok", rows>>
    ELSE <<"ok", Append(rows, json_loads(line))>>

----------------------------------------------------------------------------
(* build_map_by_messages_hash, one row at a time *)

EmptyMap == [h \in {} |-> Null]

\* line 63: compute_messages_hash(r), tabulated over the records of the logs
Fingerprint == [r \in Records |-> compute_messages_hash(r)]

\* the loop body with the last occurrence kept
build_step_last_wins(mapping, dups, r) ==
    LET h == Fingerprint[r]
    IN IF IsRaised(h) THEN h
       ELSE IF h \in DOMAIN mapping
            THEN <<"ok", [mapping EXCEPT ![h] = r], dups + 1>>
            ELSE <<"ok", (h :> r) @@ mapping, dups>>

\* the loop body with the duplicate not counted
build_step_uncounted(mapping, dups, r) ==
    LET h == Fingerprint[r]
    IN IF IsRaised(h) THEN h
       ELSE IF h \in DOMAIN mapping
            THEN <<"ok", mapping, dups>>
            ELSE <<"ok", (h :> r) @@ mapping, dups>>

\* lines 62-67
build_step(mapping, dups, r) ==
    LET h == Fingerprint[r]
    IN IF IsRaised(h) THEN h
       ELSE IF h \in DOMAIN mapping
            THEN <<"ok", mapping, dups + 1>>
            ELSE <<"ok", (h :> r) @@ mapping, dups>>

\* sorted(...) of a set of fingerprints: hex digests of one length sort as numbers
RECURSIVE sorted(_)
sorted(S) ==
    IF S = {} THEN <<>>
    ELSE LET m == CHOOSE x \in S : \A y \in S : x[2] <= y[2]
         IN <<m>> \o sorted(S \ {m})

----------------------------------------------------------------------------
(* The scoring loop of main, one aligned fingerprint at a time.  The six   *)
(* counters travel as a record.                                            *)

Counters == [TP |-> TP, FP |-> FP, FN |-> FN, TN |-> TN,
             triggered |-> count_finish_reason_tool_calls,
             successful |-> count_successful_tool_call]

\* the classification with FP and FN exchanged
classify_swapped(c, ours_tc, off_tc) ==
    IF ours_tc /\ off_tc THEN [c EXCEPT !.TP = @ + 1]
    ELSE IF ours_tc /\ ~off_tc THEN [c EXCEPT !.FN = @ + 1]
    ELSE IF ~ours_tc /\ off_tc THEN [c EXCEPT !.FP = @ + 1]
    ELSE [c EXCEPT !.TN = @ + 1]

\* the classification as independent ifs: a pair with both sides triggered
\* counts as TP and, falling through, a candidate trigger counts as FP too
classify_fallthrough(c, ours_tc, off_tc) ==
    LET c1 == IF ours_tc /\ off_tc THEN [c EXCEPT !.TP = @ + 1] ELSE c
        c2 == IF ours_tc THEN [c1 EXCEPT !.FP = @ + 1] ELSE c1
        c3 == IF ~ours_tc /\ off_tc THEN [c2 EXCEPT !.FN = @ + 1] ELSE c2
    IN IF ~ours_tc /\ ~off_tc THEN [c3 EXCEPT !.TN = @ + 1] ELSE c3

\* lines 104-111
classify(c, ours_tc, off_tc) ==
    IF ours_tc /\ off_tc THEN [c EXCEPT !.TP = @ + 1]
    ELSE IF ours_tc /\ ~off_tc THEN [c EXCEPT !.FP = @ + 1]
    ELSE IF ~ours_tc /\ off_tc THEN [c EXCEPT !.FN = @ + 1]
    ELSE [c EXCEPT !.TN = @ + 1]

\* the schema counters with validity read from the reference record
count_schema_reference(c, ours_tc, ours, off) ==
    IF ours_tc
    THEN [c EXCEPT !.triggered = @ + 1,
                   !.successful = IF Truthy(Get(off, "tool_calls_valid", Null))
                                  THEN @ + 1 ELSE @]
    ELSE c

\* lines 113-116
count_schema(c, ours_tc, ours, off) ==
    IF ours_tc
    THEN [c EXCEPT !.triggered = @ + 1,
                   !.successful = IF Truthy(Get(ours, "tool_calls_valid", Null))
                                  THEN @ + 1 ELSE @]
    ELSE c

\* lines 96-116: the body of the loop
score_step(c, ours, off) ==
    LET fr_ours == extract_finish_reason(ours)
        fr_off == extract_finish_reason(off)
    IN IF IsRaised(fr_ours) THEN fr_ours
       ELSE IF IsRaised(fr_off) THEN fr_off
       ELSE LET ours_tc == is_tool_calls(fr_ours)
                off_tc == is_tool_calls(fr_off)
            IN <<"ok", count_schema(classify(c, ours_tc, off_tc), ours_tc, ours, off)>>

\* lines 126-149
make_summary(p, r, f, sa) ==
    <<"summary",
      [alignment |->
          [ours_total_unique_hashes |-> Cardinality(DOMAIN ours_map),
           official_total_unique_hashes |-> Cardinality(DOMAIN off_map),
           aligned |-> Len(aligned),
           duplicate_ours_hashes |-> ours_dups,
           duplicate_official_hashes |-> off_dups,
           key_type |-> "messages_tools_tool_choice_hash"],
       tool_call_trigger_similarity |->
          [TP |-> TP, FP |-> FP, FN |-> FN, TN |-> TN,
           precision |-> RoundPct(p),
           recall |-> RoundPct(r),
           tool_call_f1 |-> RoundPct(f)],
       tool_call_schema_accuracy |->
          [count_finish_reason_tool_calls |-> count_finish_reason_tool_calls,
           count_successful_tool_call |-> count_successful_tool_call,
           schema_accuracy |-> RoundPct(sa)]]>>

NoSummary == <<"none">>

----------------------------------------------------------------------------
(* One run of main *)

HashIdle == h_in = <<>> /\ h_out = <<>>
FrIdle == fr_in = Null /\ fr_out = <<"pending">>

\* main before its first statement, at position p
RunInit(p) ==
    /\ pc = p
    /\ error = "none"
    /\ ours_rows = <<>> /\ off_rows = <<>>
    /\ ours_map = EmptyMap /\ ours_dups = 0
    /\ off_map = EmptyMap /\ off_dups = 0
    /\ idx = 0
    /\ aligned = <<>> /\ k = 0
    /\ TP = 0 /\ FP = 0 /\ FN = 0 /\ TN = 0
    /\ count_finish_reason_tool_calls = 0
    /\ count_successful_tool_call = 0
    /\ precision = Unset /\ recall = Unset /\ f1 = Unset /\ schema_accuracy = Unset
    /\ summary = NoSummary
    /\ out_file = <<>> /\ stdout = <<>>

Init == RunInit("load_ours") /\ HashIdle /\ FrIdle

loadVars == <<ours_rows, off_rows>>
indexVars == <<ours_map, ours_dups, off_map, off_dups, idx>>
scoreVars == <<aligned, k, TP, FP, FN, TN, count_finish_reason_tool_calls,
               count_successful_tool_call>>
ratioVars == <<precision, recall, f1, schema_accuracy, summary>>
outVars == <<out_file, stdout>>
otherVars == <<hashVars, frVars>>

\* an exception leaves main
Abort(exc) == pc' = "aborted" /\ error' = exc

\* line 78, lines 10-17: load_jsonl(args.ours) reads one more line
LoadOursLine ==
    /\ pc = "load_ours"
    /\ \E line \in Lines :
          /\ ours_rows' = load_line(ours_rows, line)[2]
          /\ Len(ours_rows') <= MaxRows
    /\ UNCHANGED <<pc, error, off_rows, indexVars, scoreVars, ratioVars, outVars, otherVars>>

\* line 18: the file is exhausted
LoadOursReturn ==
    /\ pc = "load_ours"
    /\ pc' = "load_off"
    /\ UNCHANGED <<error, loadVars, indexVars, scoreVars, ratioVars, outVars, otherVars>>

\* line 9: args.ours cannot be opened or read
LoadOursFail ==
    /\ pc = "load_ours"
    /\ Abort("OSError_ours")
    /\ UNCHANGED <<loadVars, indexVars, scoreVars, ratioVars, outVars, otherVars>>

\* line 79
LoadOffLine ==
    /\ pc = "load_off"
    /\ \E line \in Lines :
          /\ off_rows' = load_line(off_rows, line)[2]
          /\ Len(off_rows') <= MaxRows
    /\ UNCHANGED <<pc, error, ours_rows, indexVars, scoreVars, ratioVars, outVars, otherVars>>

LoadOffReturn ==
    /\ pc = "load_off"
    /\ pc' = "build_ours"
    /\ UNCHANGED <<error, loadVars, indexVars, scoreVars, ratioVars, outVars, otherVars>>

LoadOffFail ==
    /\ pc = "load_off"
    /\ Abort("OSError_official")
    /\ UNCHANGED <<loadVars, indexVars, scoreVars, ratioVars, outVars, otherVars>>

\* line 81, lines 62-67: one iteration of the loop over ours_rows
BuildOurs ==
    /\ pc = "build_ours"
    /\ idx < Len(ours_rows)
    /\ LET res == build_step(ours_map, ours_dups, ours_rows[idx + 1])
       IN IF IsRaised(res)
          THEN /\ Abort(res[2])
               /\ UNCHANGED indexVars
          ELSE /\ ours_map' = res[2]
               /\ ours_dups' = res[3]
               /\ idx' = idx + 1
               /\ UNCHANGED <<pc, error, off_map, off_dups>>
    /\ UNCHANGED <<loadVars, scoreVars, ratioVars, outVars, otherVars>>

\* line 68
BuildOursReturn ==
    /\ pc = "build_ours"
    /\ idx = Len(ours_rows)
    /\ pc' = "build_off"
    /\ idx' = 0
    /\ UNCHANGED <<error, loadVars, ours_map, ours_dups, off_map, off_dups,
                   scoreVars, ratioVars, outVars, otherVars>>

\* line 82
BuildOff ==
    /\ pc = "build_off"
    /\ idx < Len(off_rows)
    /\ LET res == build_step(off_map, off_dups, off_rows[idx + 1])
       IN IF IsRaised(res)
          THEN /\ Abort(res[2])
               /\ UNCHANGED indexVars
          ELSE /\ off_map' = res[2]
               /\ off_dups' = res[3]
               /\ idx' = idx + 1
               /\ UNCHANGED <<pc, error, ours_map, ours_dups>>
    /\ UNCHANGED <<loadVars, scoreVars, ratioVars, outVars, otherVars>>

BuildOffReturn ==
    /\ pc = "build_off"
    /\ idx = Len(off_rows)
    /\ pc' = "align"
    /\ UNCHANGED <<error, loadVars, indexVars, scoreVars, ratioVars, outVars, otherVars>>

\* lines 84-90
Align ==
    /\ pc = "align"
    /\ aligned' = sorted(DOMAIN ours_map \cap DOMAIN off_map)
    /\ k' = 0
    /\ TP' = 0 /\ FP' = 0 /\ FN' = 0 /\ TN' = 0
    /\ count_finish_reason_tool_calls' = 0
    /\ count_successful_tool_call' = 0
    /\ pc' = "score"
    /\ UNCHANGED <<error, loadVars, indexVars, ratioVars, outVars, otherVars>>

\* lines 95-116: one iteration of the loop over aligned
Score ==
    /\ pc = "score"
    /\ k < Len(aligned)
    /\ LET h == aligned[k + 1]
           res == score_step(Counters, ours_map[h], off_map[h])
       IN IF IsRaised(res)
          THEN /\ Abort(res[2])
               /\ UNCHANGED <<k, TP, FP, FN, TN, count_finish_reason_tool_calls,
                              count_successful_tool_call>>
          ELSE /\ TP' = res[2].TP /\ FP' = res[2].FP
               /\ FN' = res[2].FN /\ TN' = res[2].TN
               /\ count_finish_reason_tool_calls' = res[2].triggered
               /\ count_successful_tool_call' = res[2].successful
               /\ k' = k + 1
               /\ UNCHANGED <<pc, error>>
    /\ UNCHANGED <<aligned, loadVars, indexVars, ratioVars, outVars, otherVars>>

\* lines 118-149: the ratios and the summary
Derive ==
    /\ pc = "score"
    /\ k = Len(aligned)
    /\ LET p == precision_of(TP, FP)
           r == recall_of(TP, FN)
           sa == schema_accuracy_of(count_successful_tool_call,
                                    count_finish_reason_tool_calls)
       IN IF IsRaised(p) \/ IsRaised(r) \/ IsRaised(sa)
          THEN /\ Abort("ZeroDivisionError")
               /\ UNCHANGED ratioVars
          ELSE LET f == f1_of(p, r)
               IN IF IsRaised(f)
                  THEN /\ Abort("ZeroDivisionError")
                       /\ UNCHANGED ratioVars
                  ELSE /\ precision' = p /\ recall' = r /\ f1' = f
                       /\ schema_accuracy' = sa
                       /\ summary' = make_summary(p, r, f, sa)
                       /\ pc' = "write"
                       /\ UNCHANGED error
    /\ UNCHANGED <<loadVars, indexVars, scoreVars, outVars, otherVars>>

\* the output path cannot be opened, but the summary is printed first
OpenOutFail_printed ==
    /\ pc = "write"
    /\ Abort("OSError_out")
    /\ stdout' = <<summary>>
    /\ UNCHANGED <<loadVars, indexVars, scoreVars, ratioVars, out_file, otherVars>>

\* line 151: args.out cannot be opened for writing
OpenOutFail ==
    /\ pc = "write"
    /\ Abort("OSError_out")
    /\ UNCHANGED <<loadVars, indexVars, scoreVars, ratioVars, outVars, otherVars>>

\* lines 151-152
WriteOut ==
    /\ pc = "write"
    /\ out_file' = <<summary>>
    /\ pc' = "print"
    /\ UNCHANGED <<error, loadVars, indexVars, scoreVars, ratioVars, stdout, otherVars>>

\* line 153
PrintOut ==
    /\ pc = "print"
    /\ stdout' = <<summary>>
    /\ pc' = "done"
    /\ UNCHANGED <<error, loadVars, indexVars, scoreVars, ratioVars, out_file, otherVars>>

Next ==
    \/ LoadOursLine \/ LoadOursReturn \/ LoadOursFail
    \/ LoadOffLine \/ LoadOffReturn \/ LoadOffFail
    \/ BuildOurs \/ BuildOursReturn \/ BuildOff \/ BuildOffReturn
    \/ Align \/ Score \/ Derive
    \/ OpenOutFail \/ WriteOut \/ PrintOut

Spec == Init /\ [][Next]_vars

----------------------------------------------------------------------------
(* Properties of a run *)

\* the positions of main at which both indices are complete
AfterBuild == {"align", "score", "write", "print", "done"}
\* the positions at which the scoring loop has started
AfterAlign == {"score", "write", "print", "done"}
\* the positions at which the ratios and the summary exist
AfterDerive == {"write", "print", "done"}

Size(mapping) == Cardinality(DOMAIN mapping)
Both == DOMAIN ours_map \cap DOMAIN off_map

\* the fingerprints the scoring loop has consumed
Scored == {aligned[i] : i \in 1..k}

\* whether a retained record triggers, as the scoring loop decides it
Triggers(entry) == is_tool_calls(extract_finish_reason(entry))
Valid(entry) == Truthy(Get(entry, "tool_calls_valid", Null))

\* the smallest position of rows that carries fingerprint h
FirstPos(rows, h) ==
    CHOOSE i \in 1..Len(rows) :
        /\ Fingerprint[rows[i]] = h
        /\ \A j \in 1..(i - 1) : Fingerprint[rows[j]] # h

\* first occurrence wins over the first n rows
FirstWins(rows, n, mapping, dups) ==
    /\ DOMAIN mapping = {Fingerprint[rows[i]] : i \in 1..n}
    /\ \A h \in DOMAIN mapping : mapping[h] = rows[FirstPos(rows, h)]
    /\ dups = Cardinality({i \in 1..n :
                              FirstPos(rows, Fingerprint[rows[i]]) # i})

\* C2: the index size plus the duplicate count is the number of records
\* processed: after every iteration of the loop of build_map_by_messages_hash,
\* and, once it has returned, the length of its input.
C2_IndexSize ==
    /\ pc = "build_ours" => Size(ours_map) + ours_dups = idx
    /\ pc = "build_off" => Size(off_map) + off_dups = idx
    /\ pc \in {"build_off"} \cup AfterBuild =>
          Size(ours_map) + ours_dups = Len(ours_rows)
    /\ pc \in AfterBuild => Size(off_map) + off_dups = Len(off_rows)
    /\ pc \in AfterDerive =>
          /\ summary[2].alignment.ours_total_unique_hashes
                + summary[2].alignment.duplicate_ours_hashes = Len(ours_rows)
          /\ summary[2].alignment.official_total_unique_hashes
                + summary[2].alignment.duplicate_official_hashes = Len(off_rows)

\* a finished run whose candidate log held two records of one fingerprint
C2_Witness ==
    /\ pc = "done"
    /\ Len(ours_rows) = 2 /\ ours_dups = 1 /\ Size(ours_map) = 1
    /\ Len(off_rows) = 2 /\ off_dups = 0

\* C3, the state: at every iteration and at the return of
\* build_map_by_messages_hash, each fingerprint seen so far maps to the record
\* at the smallest position carrying it, and the duplicate counter counts
\* exactly the later positions.
C3_FirstOccurrence ==
    /\ pc = "build_ours" => FirstWins(ours_rows, idx, ours_map, ours_dups)
    /\ pc = "build_off" => FirstWins(off_rows, idx, off_map, off_dups)
    /\ pc \in {"build_off"} \cup AfterBuild =>
          FirstWins(ours_rows, Len(ours_rows), ours_map, ours_dups)
    /\ pc \in AfterBuild => FirstWins(off_rows, Len(off_rows), off_map, off_dups)

\* C3, the step: a stored record is never replaced or removed, and a step that
\* counts a duplicate leaves the index as it is.
C3_NeverReplaced ==
    [][/\ \A h \in DOMAIN ours_map :
             h \in DOMAIN ours_map' /\ ours_map'[h] = ours_map[h]
       /\ \A h \in DOMAIN off_map :
             h \in DOMAIN off_map' /\ off_map'[h] = off_map[h]
       /\ ours_dups' # ours_dups => ours_dups' = ours_dups + 1 /\ ours_map' = ours_map
       /\ off_dups' # off_dups => off_dups' = off_dups + 1 /\ off_map' = off_map]_vars

\* C3: first occurrence wins in build_map_by_messages_hash: the record stored
\* under a fingerprint is the one at the smallest input position carrying it,
\* it is never replaced, and each later record of that fingerprint only
\* increments the duplicate counter.
C3_FirstWins == []C3_FirstOccurrence /\ C3_NeverReplaced

\* a finished run in which a later, different record of the same fingerprint
\* was dropped
C3_Witness ==
    /\ pc = "done"
    /\ Len(ours_rows) = 2
    /\ ours_rows[1] # ours_rows[2]
    /\ Fingerprint[ours_rows[1]] = Fingerprint[ours_rows[2]]
    /\ ours_map[Fingerprint[ours_rows[2]]] = ours_rows[1]
    /\ ours_dups = 1

\* C4, the state: after k aligned fingerprints the four counters sum to k, and
\* the summary's four counts sum to the alignment.aligned it reports, which is
\* the size of the intersection of the two key sets.
C4_SumIsProcessed ==
    /\ pc \in AfterAlign =>
          /\ TP + FP + FN + TN = k
          /\ TP >= 0 /\ FP >= 0 /\ FN >= 0 /\ TN >= 0
          /\ Len(aligned) = Cardinality(Both)
    /\ pc \in AfterDerive =>
          /\ k = Len(aligned)
          /\ summary[2].tool_call_trigger_similarity.TP
                + summary[2].tool_call_trigger_similarity.FP
                + summary[2].tool_call_trigger_similarity.FN
                + summary[2].tool_call_trigger_similarity.TN
             = summary[2].alignment.aligned
          /\ summary[2].alignment.aligned = Cardinality(Both)

\* C4, the step: each iteration of the scoring loop adds one to exactly one of
\* the four counters and leaves the other three alone.
C4_OneBucketPerStep ==
    [][k' = k + 1 =>
          \E b \in 1..4 :
              <<TP', FP', FN', TN'>> = [<<TP, FP, FN, TN>> EXCEPT ![b] = @ + 1]]_vars

\* C4: confusion matrix completeness: each aligned fingerprint increments
\* exactly one of TP, FP, FN, TN by one, so the four sum to the number of
\* fingerprints processed and, in the summary, to alignment.aligned.
C4_MatrixComplete == []C4_SumIsProcessed /\ C4_OneBucketPerStep

\* a finished run that scored two aligned fingerprints into two different buckets
C4_Witness ==
    /\ pc = "done"
    /\ Len(aligned) = 2
    /\ TP = 1 /\ FP = 1 /\ FN = 0 /\ TN = 0

\* C5: zero-division policy: no run ends in a ZeroDivisionError; each ratio is
\* 0.0 when its denominator is zero; with no aligned fingerprint the run reaches
\* its summary, which reports four zero counts and four zero ratios.
C5_ZeroDivision ==
    /\ error # "ZeroDivisionError"
    /\ pc \in AfterDerive =>
          /\ TP + FP = 0 => IsZero(precision)
          /\ TP + FN = 0 => IsZero(recall)
          /\ IsZero(FAdd(precision, recall)) => IsZero(f1)
          /\ count_finish_reason_tool_calls = 0 => IsZero(schema_accuracy)
          /\ TP + FP > 0 => precision = Frac(TP, TP + FP)
          /\ TP + FN > 0 => recall = Frac(TP, TP + FN)
    /\ (pc \in AfterDerive \/ error = "OSError_out") /\ Cardinality(Both) = 0 =>
          /\ summary[2].tool_call_trigger_similarity
                = [TP |-> 0, FP |-> 0, FN |-> 0, TN |-> 0,
                   precision |-> 0, recall |-> 0, tool_call_f1 |-> 0]
          /\ summary[2].tool_call_schema_accuracy.schema_accuracy = 0
          /\ IsZero(precision) /\ IsZero(recall) /\ IsZero(f1)
          /\ IsZero(schema_accuracy)

\* a finished run over two non-empty logs that share no fingerprint
C5_Witness ==
    /\ pc = "done"
    /\ Len(ours_rows) > 0 /\ Len(off_rows) > 0
    /\ Cardinality(Both) = 0
    /\ stdout = <<summary>>
    /\ summary[2].tool_call_trigger_similarity.tool_call_f1 = 0

\* the errors of the environment: a log that cannot be read, an output path
\* that cannot be opened
EnvErrors == {"OSError_ours", "OSError_official", "OSError_out"}

\* C7: the content of a log line never aborts a run: the rows kept are parsed
\* values only, and a run ends in an error only when a file could not be read
\* or the output could not be opened.
C7_ContentNeverAborts ==
    /\ \A i \in 1..Len(ours_rows) : ours_rows[i] \in Records
    /\ \A i \in 1..Len(off_rows) : off_rows[i] \in Records
    /\ pc = "aborted" => error \in EnvErrors

\* C8: no partial summary: whatever has been written or printed is the complete
\* summary, produced after both logs were loaded, both indices built and
\* every aligned fingerprint scored, the file before the print; a run that could
\* not read an input or open the output is aborted with nothing written or
\* printed.
C8_NoPartialSummary ==
    /\ (out_file # <<>> \/ stdout # <<>>) =>
          /\ pc \in {"print", "done"}
          /\ error = "none"
          /\ out_file = <<summary>>
          /\ stdout \in {<<>>, <<summary>>}
          /\ summary = make_summary(precision, recall, f1, schema_accuracy)
          /\ DOMAIN ours_map = {Fingerprint[ours_rows[i]] : i \in 1..Len(ours_rows)}
          /\ DOMAIN off_map = {Fingerprint[off_rows[i]] : i \in 1..Len(off_rows)}
          /\ aligned = sorted(Both)
          /\ k = Len(aligned)
    /\ pc = "done" => out_file = <<summary>> /\ stdout = <<summary>>
    /\ error \in EnvErrors =>
          pc = "aborted" /\ out_file = <<>> /\ stdout = <<>>
    /\ pc = "aborted" => error # "none" /\ out_file = <<>> /\ stdout = <<>>

\* a run that computed its summary and then could not open the output path
C8_Witness ==
    /\ pc = "aborted"
    /\ error = "OSError_out"
    /\ summary # NoSummary
    /\ Len(aligned) > 0
    /\ out_file = <<>> /\ stdout = <<>>

\* C9: the confusion matrix and the schema counters are functions of the
\* aligned pairs only: each counter is the number of scored fingerprints, all
\* of them in both indices, whose retained records fall in its bucket.
C9_AlignedPairsOnly ==
    pc \in AfterAlign =>
       /\ Scored \subseteq Both
       /\ (pc \in AfterDerive \/ k = Len(aligned)) => Scored = Both
       /\ TP = Cardinality({h \in Scored :
                               Triggers(ours_map[h]) /\ Triggers(off_map[h])})
       /\ FP = Cardinality({h \in Scored :
                               Triggers(ours_map[h]) /\ ~Triggers(off_map[h])})
       /\ FN = Cardinality({h \in Scored :
                               ~Triggers(ours_map[h]) /\ Triggers(off_map[h])})
       /\ TN = Cardinality({h \in Scored :
                               ~Triggers(ours_map[h]) /\ ~Triggers(off_map[h])})
       /\ count_finish_reason_tool_calls
             = Cardinality({h \in Scored : Triggers(ours_map[h])})
       /\ count_successful_tool_call
             = Cardinality({h \in Scored :
                               Triggers(ours_map[h]) /\ Valid(ours_map[h])})

\* a finished run with one aligned pair, scored FP, a triggering candidate
\* record whose fingerprint the reference lacks, and a reference record whose
\* fingerprint the candidate lacks
C9_Witness ==
    /\ pc = "done"
    /\ TP = 0 /\ FP = 1 /\ FN = 0 /\ TN = 0
    /\ \E h \in DOMAIN ours_map \ DOMAIN off_map : Triggers(ours_map[h])
    /\ DOMAIN off_map \ DOMAIN ours_map # {}

\* C10: the two metrics are linked: after every iteration and in the summary,
\* count_finish_reason_tool_calls = TP + FP and
\* 0 <= count_successful_tool_call <= count_finish_reason_tool_calls; the
\* successful count is the number of scored fingerprints whose candidate record
\* triggers and is valid, whatever the reference record's tool_calls_valid.
C10_SchemaCounters ==
    /\ pc \in AfterAlign =>
          /\ count_finish_reason_tool_calls = TP + FP
          /\ 0 <= count_successful_tool_call
          /\ count_successful_tool_call <= count_finish_reason_tool_calls
          /\ count_successful_tool_call
                = Cardinality({h \in Scored :
                                  Triggers(ours_map[h]) /\ Valid(ours_map[h])})
    /\ pc \in AfterDerive =>
          /\ summary[2].tool_call_schema_accuracy.count_finish_reason_tool_calls
                = summary[2].tool_call_trigger_similarity.TP
                     + summary[2].tool_call_trigger_similarity.FP
          /\ summary[2].tool_call_schema_accuracy.count_successful_tool_call
                <= summary[2].tool_call_schema_accuracy.count_finish_reason_tool_calls
          /\ summary[2].tool_call_schema_accuracy.count_successful_tool_call
                = count_successful_tool_call

\* a finished run with two candidate triggers, one of them valid, where the
\* reference record of the valid one is marked invalid
C10_Witness ==
    /\ pc = "done"
    /\ count_finish_reason_tool_calls = 2
    /\ count_successful_tool_call = 1
    /\ \E h \in Both :
          Triggers(ours_map[h]) /\ Valid(ours_map[h]) /\ ~Valid(off_map[h])

----------------------------------------------------------------------------
(* compute_messages_hash on pairs of records *)

\* the members that are there
Members(pairs) == SelectSeq(pairs, LAMBDA p : p[2] # Absent)
MkObj(pairs) == Obj(Members(pairs))

HashMessages == {Absent, EmptyArr, Arr(<<MsgHi>>), Arr(<<MsgHiReordered>>), Arr(<<MsgBye>>)}
HashTools == {Absent, Null, Arr(<<ToolF>>), Arr(<<ToolFReordered>>)}
HashToolChoices == {Absent, Str("auto")}
HashModels == {Str("m1"), Str("m2")}
HashFinishReasons == {Absent, Str("tool_calls")}

\* a request as one vendor logs it, or as the other does, keys in another order
HashRequest(messages, tools, tool_choice, model) ==
    IF model = Str("m1")
    THEN MkObj(<< <<"model", model>>, <<"messages", messages>>,
                  <<"tools", tools>>, <<"tool_choice", tool_choice>> >>)
    ELSE MkObj(<< <<"tool_choice", tool_choice>>, <<"tools", tools>>,
                  <<"messages", messages>>, <<"model", model>> >>)

HashEntries ==
    {MkObj(<< <<"request", HashRequest(m, t, c, mo)>>, <<"finish_reason", fr>> >>) :
        m \in HashMessages, t \in HashTools, c \in HashToolChoices,
        mo \in HashModels, fr \in HashFinishReasons}
    \cup {EmptyObj, MkObj(<< <<"finish_reason", Str("tool_calls")>> >>)}

InitHash ==
    /\ RunInit("idle")
    /\ FrIdle
    /\ h_in \in HashEntries \X HashEntries
    /\ h_out = <<>>

\* lines 35-52, on each record of the pair
HashPair ==
    /\ h_out = <<>>
    /\ h_out' = <<compute_messages_hash(h_in[1]), compute_messages_hash(h_in[2])>>
    /\ UNCHANGED <<runVars, h_in, frVars>>

NextHash == HashPair

SpecHash == InitHash /\ [][NextHash]_vars

\* the value of a field of the record's request, Absent when it has none
RequestField(entry, key) == Field(Get(entry, "request", EmptyObj), key)

KeyFields == {"messages", "tools", "tool_choice"}

\* the two records agree on the three fields, as Python compares values
SameKeyFields(e1, e2) ==
    \A key \in KeyFields : JEq(RequestField(e1, key), RequestField(e2, key))

\* C1: two records whose request.messages, request.tools and
\* request.tool_choice are equal have the same fingerprint, whatever the order
\* of keys inside nested objects and whatever their other fields hold.
C1_SameFieldsSameFingerprint ==
    h_out # <<>> =>
       /\ ~IsRaised(h_out[1]) /\ ~IsRaised(h_out[2])
       /\ SameKeyFields(h_in[1], h_in[2]) => h_out[1] = h_out[2]

\* a fingerprinted pair that agrees on the three fields while its messages and
\* tools differ in key order, its models differ and one has a finish reason
C1_Witness ==
    /\ h_out # <<>>
    /\ SameKeyFields(h_in[1], h_in[2])
    /\ RequestField(h_in[1], "messages") # RequestField(h_in[2], "messages")
    /\ RequestField(h_in[1], "tools") # RequestField(h_in[2], "tools")
    /\ RequestField(h_in[1], "model") # RequestField(h_in[2], "model")
    /\ Has(h_in[1], "finish_reason") # Has(h_in[2], "finish_reason")
    /\ h_out[1] = h_out[2]

----------------------------------------------------------------------------
(* extract_finish_reason on one record *)

FrTops == {Absent, Null, Str(""), Str("stop"), Str("tool_calls")}

Choices(c) == Obj(<< <<"choices", c>> >>)

FrResponses ==
    {Absent, Null, EmptyObj,
     Choices(Null), Choices(EmptyArr), Choices(Arr(<<Null>>)),
     Choices(Arr(<<EmptyObj>>)),
     NestedFinish(""), NestedFinish("stop"), NestedFinish("tool_calls"),
     \* the first choice decides
     Choices(Arr(<< Obj(<< <<"finish_reason", Str("tool_calls")>> >>),
                    Obj(<< <<"finish_reason", Str("stop")>> >>) >>)),
     Choices(Arr(<< Obj(<< <<"finish_reason", Str("")>> >>),
                    Obj(<< <<"finish_reason", Str("tool_calls")>> >>) >>)),
     \* choices that is no list
     Choices(Obj(<< <<"finish_reason", Str("tool_calls")>> >>)),
     Choices(Str("tool_calls")),
     \* a response, or a first choice, that is no object
     Str("error"), Choices(Arr(<<Str("error")>>))}

FrEntries ==
    {MkObj(<< <<"finish_reason", top>>, <<"response", resp>> >>) :
        top \in FrTops, resp \in FrResponses}

InitExtract ==
    /\ RunInit("idle")
    /\ HashIdle
    /\ fr_in \in FrEntries
    /\ fr_out = <<"pending">>

\* lines 21-32
Extract ==
    /\ fr_out = <<"pending">>
    /\ fr_out' = extract_finish_reason(fr_in)
    /\ UNCHANGED <<runVars, hashVars, fr_in>>

NextExtract == Extract

SpecExtract == InitExtract /\ [][NextExtract]_vars

\* present and non-empty
NonEmpty(v) == IsStr(v) /\ v[2] # ""

\* the finish_reason of the first element of response.choices, Absent when
\* response.choices is no non-empty list of objects
NestedFinishReason(entry) ==
    LET resp == Field(entry, "response")
        choices == IF IsDict(resp) THEN Field(resp, "choices") ELSE Absent
    IN IF IsList(choices) /\ Len(choices[2]) > 0 /\ IsDict(choices[2][1])
       THEN Field(choices[2][1], "finish_reason")
       ELSE Absent

\* a response that is a non-empty string, or a first choice that is one:
\* neither has the shape of a response
IllShaped(entry) ==
    LET resp == Field(entry, "response")
        choices == IF IsDict(resp) THEN Field(resp, "choices") ELSE Absent
    IN \/ NonEmpty(resp)
       \/ IsList(choices) /\ Len(choices[2]) > 0 /\ NonEmpty(choices[2][1])

\* C6: the priority order of extract_finish_reason: a non-empty top-level
\* finish_reason is returned whatever response holds; otherwise the non-empty
\* finish_reason of the first element of response.choices; otherwise None.
C6_PriorityOrder ==
    fr_out # <<"pending">> =>
       LET top == Field(fr_in, "finish_reason")
           nested == NestedFinishReason(fr_in)
       IN /\ NonEmpty(top) => fr_out = top
          /\ ~NonEmpty(top) /\ NonEmpty(nested) => fr_out = nested
          /\ ~NonEmpty(top) /\ ~NonEmpty(nested) /\ ~IllShaped(fr_in) => fr_out = Null

\* an extraction in which a top-level "stop" hid a nested "tool_calls"
C6_Witness ==
    /\ fr_out = Str("stop")
    /\ Field(fr_in, "finish_reason") = Str("stop")
    /\ NestedFinishReason(fr_in) = Str("tool_calls")

====
